---- MODULE Spec2Model ----
(***************************************************************************)
(* Model of src/activity/Activity1.py: the five student rules, the         *)
(* evaluator (evaluate_student), the CSV logger (log_results), the demo    *)
(* driver loop (demo) and the program entry point (__main__).              *)
(*                                                                         *)
(* Numbers: every percentage, grade and score is a Python float; the model *)
(* holds it as an integer count of TENTHS (82.5 is 825, 100.0 is 1000), so *)
(* the literals 0, 100, 75.0, 5.0 and 100.0 of the source are 0, 1000,     *)
(* 750, 50 and 1000 here.                                                  *)
(*                                                                         *)
(* Text: detail strings, CSV cells and column names are the strings the    *)
(* code builds.  A CSV record is the sequence of its cells; the log file   *)
(* is the sequence of its records (csv quoting is not modelled).           *)
(***************************************************************************)
EXTENDS Integers, Sequences, FiniteSets, TLC

VARIABLES
    file,      \* the log at csv_path: [exists, rows]
    file0,     \* the log as it was before the run started (never changes)
    pc,        \* position of the driver
    idx,       \* 1-based number of the student being processed
    student,   \* the Student being processed
    results,   \* the dict evaluate_student returned, in insertion order
    calls,     \* number of log_results calls that have returned or raised
    ioerrs,    \* number of I/O errors (OSError) raised so far
    last,      \* the last log_results call: the log before it, need_header, env
    clock      \* the wall clock, in seconds

vars == <<file, file0, pc, idx, student, results, calls, ioerrs, last, clock>>

(***************************************************************************)
(* Python values.  A numeric field holds a float, or an object that is not *)
(* a number (None), for which "0 <= x" raises TypeError.  A flag holds a   *)
(* bool, or an object whose truth test raises TypeError (pandas.NA).       *)
(***************************************************************************)
Num(v) == [num |-> TRUE, v |-> v]
None == [num |-> FALSE, v |-> 0]
Flag(b) == [bool |-> TRUE, b |-> b]
NA == [bool |-> FALSE, b |-> FALSE]
True == Flag(TRUE)
False == Flag(FALSE)

\* str(x) of a flag, as an f-string or the csv writer renders it
str_flag(f) == IF ~f.bool THEN "<NA>" ELSE IF f.b THEN "True" ELSE "False"

\* str(b) of a Python bool
str_bool(b) == IF b THEN "True" ELSE "False"

\* f"{x:.1f}" of a float x >= 0 given in tenths
format_1f(v) == ToString(v \div 10) \o "." \o ToString(v % 10)

\* repr(x) of a float given in tenths, as f"{x}" renders it
repr_float(v) == IF v < 0 THEN "-" \o format_1f(0 - v) ELSE format_1f(v)

\* ExpertSystem.__init__
attendance_threshold == 750
passing_grade == 750
bonus_points == 50
max_score == 1000

\* the upper limit 100 of the range checks "0 <= x <= 100"
range_max == 1000

\* what a rule call does: return (ok, detail), or raise
Return(ok, detail) == [exc |-> "", ok |-> ok, detail |-> detail]
Raise(exc) == [exc |-> exc, ok |-> FALSE, detail |-> ""]

\* min that forgets the cap: the first argument whatever the second is
min_uncapped(a, b) == a

min(a, b) == IF a <= b THEN a ELSE b

\* attendance_rule with the threshold compared by ">" instead of ">="
attendance_rule_strict(attendance_pct) ==
    IF ~attendance_pct.num THEN Raise("TypeError")
    ELSE LET v == attendance_pct.v IN
         IF ~(0 <= v /\ v <= range_max)
         THEN Return(FALSE, "Invalid attendance: " \o repr_float(v) \o "%")
         ELSE LET ok == v > attendance_threshold IN
              Return(ok, "attendance=" \o format_1f(v) \o "% -> "
                         \o (IF ok THEN "eligible" ELSE "not eligible"))

attendance_rule(attendance_pct) ==
    IF ~attendance_pct.num THEN Raise("TypeError")
    ELSE LET v == attendance_pct.v IN
         IF ~(0 <= v /\ v <= range_max)
         THEN Return(FALSE, "Invalid attendance: " \o repr_float(v) \o "%")
         ELSE LET ok == v >= attendance_threshold IN
              Return(ok, "attendance=" \o format_1f(v) \o "% -> "
                         \o (IF ok THEN "eligible" ELSE "not eligible"))

grading_rule(final_grade) ==
    IF ~final_grade.num THEN Raise("TypeError")
    ELSE LET v == final_grade.v IN
         IF ~(0 <= v /\ v <= range_max)
         THEN Return(FALSE, "Invalid grade: " \o repr_float(v))
         ELSE LET ok == v >= passing_grade IN
              Return(ok, "grade=" \o format_1f(v) \o " -> "
                         \o (IF ok THEN "pass" ELSE "fail"))

\* "a and b and (not c)" short-circuits: an operand is truth-tested only
\* when the ones before it are true; the f-string only formats the flags
login_system_rule(username_ok, password_ok, is_locked) ==
    IF ~username_ok.bool THEN Raise("TypeError")
    ELSE IF username_ok.b /\ ~password_ok.bool THEN Raise("TypeError")
    ELSE IF username_ok.b /\ password_ok.b /\ ~is_locked.bool THEN Raise("TypeError")
    ELSE LET ok == username_ok.b /\ password_ok.b /\ ~is_locked.b IN
         Return(ok, "user_ok=" \o str_flag(username_ok)
                    \o ", pass_ok=" \o str_flag(password_ok)
                    \o ", locked=" \o str_flag(is_locked) \o " -> "
                    \o (IF ok THEN "login success" ELSE "login denied"))

\* bonus_points_rule that looks at participated before the range check
bonus_points_rule_late_check(participated, base_score) ==
    IF ~base_score.num THEN Raise("TypeError")
    ELSE LET v == base_score.v IN
         IF ~participated.bool THEN Raise("TypeError")
         ELSE IF participated.b
         THEN LET new_score == IF v + bonus_points <= max_score
                               THEN v + bonus_points ELSE max_score IN
              Return(TRUE, "participated=" \o str_flag(participated)
                           \o ", base=" \o repr_float(v)
                           \o " -> bonus +" \o repr_float(bonus_points)
                           \o ", final=" \o repr_float(new_score))
         ELSE IF ~(0 <= v /\ v <= range_max)
         THEN Return(FALSE, "Invalid base score: " \o repr_float(v))
         ELSE Return(FALSE, "participated=" \o str_flag(participated)
                            \o ", base=" \o repr_float(v)
                            \o " -> no bonus, final=" \o repr_float(v))

bonus_points_rule(participated, base_score) ==
    IF ~base_score.num THEN Raise("TypeError")
    ELSE LET v == base_score.v IN
         IF ~(0 <= v /\ v <= range_max)
         THEN Return(FALSE, "Invalid base score: " \o repr_float(v))
         ELSE IF ~participated.bool THEN Raise("TypeError")
         ELSE IF participated.b
         THEN LET new_score == min(v + bonus_points, max_score) IN
              Return(TRUE, "participated=" \o str_flag(participated)
                           \o ", base=" \o repr_float(v)
                           \o " -> bonus +" \o repr_float(bonus_points)
                           \o ", final=" \o repr_float(new_score))
         ELSE Return(FALSE, "participated=" \o str_flag(participated)
                            \o ", base=" \o repr_float(v)
                            \o " -> no bonus, final=" \o repr_float(v))

library_borrowing_rule(id_valid, has_overdue) ==
    IF ~id_valid.bool THEN Raise("TypeError")
    ELSE IF id_valid.b /\ ~has_overdue.bool THEN Raise("TypeError")
    ELSE LET ok == id_valid.b /\ ~has_overdue.b IN
         Return(ok, "id_valid=" \o str_flag(id_valid)
                    \o ", overdue=" \o str_flag(has_overdue) \o " -> "
                    \o (IF ok THEN "allowed" ELSE "not allowed"))

\* the keys evaluate_student assigns, in the order of its five statements
RuleOrder ==
    <<"AttendanceRule", "GradingRule", "LoginSystemRule", "BonusPointsRule",
      "LibraryBorrowingRule">>

\* the five rule calls of evaluate_student's try block, in statement order
RuleCalls(s) ==
    << attendance_rule(s.attendance_pct),
       grading_rule(s.final_grade),
       login_system_rule(s.username_ok, s.password_ok, s.is_locked),
       bonus_points_rule(s.participated, s.base_score),
       library_borrowing_rule(s.id_valid, s.has_overdue) >>

\* a handler that catches ValueError only
ExceptValueError(exc) == exc = "ValueError"

\* "except Exception": the classes the handler of evaluate_student catches
ExceptException(exc) == exc \in {"TypeError", "ValueError", "OSError"}

\* a try block around each statement: every statement runs
Completed_each(rs) == Len(rs)

\* number of statements of the try block that complete before one raises
Completed(rs) ==
    IF \A i \in 1..Len(rs) : rs[i].exc = "" THEN Len(rs)
    ELSE (CHOOSE i \in 1..Len(rs) :
             rs[i].exc # "" /\ \A j \in 1..(i - 1) : rs[j].exc = "") - 1

\* evaluate_student: the dict (as its items in insertion order) and the
\* exception that leaves the call ("" when it returns)
evaluate_student(s) ==
    LET rs == RuleCalls(s)
        n == Completed(rs)
        raised == IF n < Len(rs) THEN rs[n + 1].exc ELSE ""
    IN [results |-> [i \in 1..n |->
                        [rule |-> RuleOrder[i], ok |-> rs[i].ok, detail |-> rs[i].detail]],
        exc |-> IF raised # "" /\ ExceptException(raised) THEN "" ELSE raised]


(***************************************************************************)
(* The logger.                                                             *)
(***************************************************************************)
fieldnames ==
    <<"timestamp", "student",
      "AttendanceRule", "AttendanceDetail",
      "GradingRule", "GradingDetail",
      "LoginSystemRule", "LoginDetail",
      "BonusPointsRule", "BonusDetail",
      "LibraryBorrowingRule", "LibraryDetail">>

detail_mapping(rule_name) ==
    CASE rule_name = "AttendanceRule" -> "AttendanceDetail"
      [] rule_name = "GradingRule" -> "GradingDetail"
      [] rule_name = "LoginSystemRule" -> "LoginDetail"
      [] rule_name = "BonusPointsRule" -> "BonusDetail"
      [] rule_name = "LibraryBorrowingRule" -> "LibraryDetail"

\* datetime.now().isoformat(timespec="seconds"), for a clock reading of t
\* seconds (t < 60) into the first minute of the epoch
isoformat(t) ==
    "1970-01-01T00:00:" \o (IF t < 10 THEN "0" ELSE "") \o ToString(t)

\* the row dict log_results builds: timestamp, student, then for every item
\* of results the outcome under the rule's name and the detail under the
\* mapped name (the csv writer renders the bool outcome with str())
RowDict(timestamp, student_name, res) ==
    LET ruleKeys == {res[i].rule : i \in 1..Len(res)}
        detailKeys == {detail_mapping(res[i].rule) : i \in 1..Len(res)}
        item(k) == CHOOSE i \in 1..Len(res) :
                       res[i].rule = k \/ detail_mapping(res[i].rule) = k
    IN [k \in {"timestamp", "student"} \cup ruleKeys \cup detailKeys |->
           IF k = "timestamp" THEN timestamp
           ELSE IF k = "student" THEN student_name
           ELSE IF k \in ruleKeys THEN str_bool(res[item(k)].ok)
           ELSE res[item(k)].detail]

\* a writer that emits cells only for the keys the row dict holds
DictWriter_writerow_present(rowdict) ==
    LET keys == SelectSeq(fieldnames, LAMBDA k : k \in DOMAIN rowdict)
    IN [i \in 1..Len(keys) |-> rowdict[keys[i]]]

\* csv.DictWriter.writerow with the default restval "": one cell per field
\* name, in fieldnames order, "" for a key the row dict lacks
DictWriter_writerow(rowdict) ==
    [i \in 1..Len(fieldnames) |->
        IF fieldnames[i] \in DOMAIN rowdict THEN rowdict[fieldnames[i]] ELSE ""]

\* csv.DictWriter.writeheader: the field names as a record
DictWriter_writeheader == fieldnames

\* The log file: whether the path exists, and the records it holds.
Absent == [exists |-> FALSE, rows |-> <<>>]
File(rows) == [exists |-> TRUE, rows |-> rows]

\* os.path.getsize, in records: zero exactly when the file holds no byte
getsize(f) == Len(f.rows)

\* a header decision that looks at the existence of the file only
need_header_absent_only(f, stat_fails) ==
    IF stat_fails THEN TRUE ELSE ~f.exists

\* lines 130-134: os.path.exists answers False when its stat fails, and the
\* handler sets need_header when getsize raises OSError
need_header(f, stat_fails) ==
    IF stat_fails THEN TRUE ELSE ~f.exists \/ getsize(f) = 0

\* open(csv_path, "w"): truncates the file
open_w(f) == [exists |-> TRUE, rows |-> <<>>]

\* open(csv_path, "a"): creates the file when absent, keeps what it holds
open_a(f) == File(f.rows)

\* a handler that catches csv.Error instead
ExceptCsvError(exc) == exc = "csv.Error"

\* "except IOError": IOError is OSError in Python 3
ExceptIOError(exc) == exc = "OSError"

\* What the operating system does during one log_results call:
\*   stat  - the stat behind os.path.exists / os.path.getsize fails
\*   open  - open(csv_path, "a") raises OSError
\*   cut   - -1: every write succeeds; c >= 0: a write raises OSError after
\*           c complete records reached the file
\*   torn  - with cut >= 0: part of the next record reached the file too
EnvOK == [stat |-> FALSE, open |-> FALSE, cut |-> -1, torn |-> FALSE]
Envs ==
    {e \in [stat : BOOLEAN, open : BOOLEAN, cut : {-1, 0, 1}, torn : BOOLEAN] :
        /\ e.open => e.cut = -1
        /\ e.cut = -1 => ~e.torn}

\* number of OSErrors an environment raises in one call
Faults(e) == (IF e.stat THEN 1 ELSE 0) + (IF e.open \/ e.cut >= 0 THEN 1 ELSE 0)

\* the part of a record that reached the file when its write was cut short
Torn(record) == SubSeq(record, 1, Len(record) \div 2)

\* log_results (lines 110-154): the log after the call, the exception that
\* leaves the call ("" when it returns) and the need_header it computed
log_results(f, student_name, res, timestamp, env) ==
    LET nh == need_header(f, env.stat)
        row == RowDict(timestamp, student_name, res)
        pending == (IF nh THEN <<DictWriter_writeheader>> ELSE <<>>)
                   \o <<DictWriter_writerow(row)>>
        c == min(env.cut, Len(pending) - 1)
        written == IF env.cut = -1 THEN pending
                   ELSE SubSeq(pending, 1, c)
                        \o (IF env.torn THEN <<Torn(pending[c + 1])>> ELSE <<>>)
        raised == IF env.open \/ env.cut >= 0 THEN "OSError" ELSE ""
    IN [file |-> IF env.open THEN f ELSE File(open_a(f).rows \o written),
        exc |-> IF raised # "" /\ ExceptIOError(raised) THEN "" ELSE raised,
        need_header |-> nh]

(***************************************************************************)
(* Students.                                                               *)
(***************************************************************************)
\* demo(): the three sample students, in list order
test_students ==
    << [name |-> "Avellaneda", attendance_pct |-> Num(825), final_grade |-> Num(780),
        username_ok |-> True, password_ok |-> True, is_locked |-> False,
        participated |-> True, base_score |-> Num(880),
        id_valid |-> True, has_overdue |-> False],
       [name |-> "Capili", attendance_pct |-> Num(700), final_grade |-> Num(720),
        username_ok |-> True, password_ok |-> False, is_locked |-> False,
        participated |-> False, base_score |-> Num(650),
        id_valid |-> True, has_overdue |-> True],
       [name |-> "Ramos", attendance_pct |-> Num(950), final_grade |-> Num(920),
        username_ok |-> True, password_ok |-> True, is_locked |-> True,
        participated |-> True, base_score |-> Num(960),
        id_valid |-> False, has_overdue |-> False] >>

\* Students a caller other than the demo passes in: two of the samples and,
\* per rule, a student whose field makes that rule raise
CallerStudents ==
    LET A == test_students[1]
        C == test_students[2]
        R == test_students[3]
    IN {A, C}
       \cup {[A EXCEPT !.name = "NoAttendance", !.attendance_pct = None],
             [A EXCEPT !.name = "NoGrade", !.final_grade = None],
             [C EXCEPT !.name = "NoLogin", !.username_ok = NA,
                       !.attendance_pct = Num(1001)],
             [R EXCEPT !.name = "NoBonus", !.participated = NA],
             [A EXCEPT !.name = "NoLibrary", !.has_overdue = NA,
                       !.base_score = Num(-1)]}

\* Inputs for one evaluation: every combination of the numeric fields, and
\* every combination of the flags
SweepMargin == 20   \* tenths below 0 and above 100 that the sweep of one value covers
NumVals == {Num(v) : v \in {-1, 0, 749, 750, 751, 950, 951, 1000, 1001}} \cup {None}
FlagVals == {True, False, NA}
WideStudents ==
    LET A == test_students[1]
    IN {[A EXCEPT !.name = "Numbers", !.attendance_pct = a, !.final_grade = g,
                  !.base_score = b, !.participated = p] :
           a \in NumVals, g \in NumVals, b \in NumVals, p \in FlagVals}
       \cup {[A EXCEPT !.name = "Flags", !.username_ok = f[1], !.password_ok = f[2],
                       !.is_locked = f[3], !.participated = f[4],
                       !.id_valid = f[5], !.has_overdue = f[6]] :
                f \in [1..6 -> FlagVals]}
       \cup {[A EXCEPT !.name = "Sweep", !.attendance_pct = Num(v), !.final_grade = Num(v),
                       !.base_score = Num(v), !.participated = p] :
                v \in (0 - SweepMargin)..(range_max + SweepMargin), p \in {True, False}}

(***************************************************************************)
(* Bounds.                                                                 *)
(***************************************************************************)
MaxCalls == 2      \* log_results calls of a caller's run
MaxFaults == 1     \* I/O errors the operating system raises in a run
MaxClock == 1      \* seconds the clock advances during a run

\* seconds that pass between two readings of the clock
Ticks == {0, 1}

\* A record as a previous run's log_results wrote it
EarlierRow ==
    DictWriter_writerow(RowDict(isoformat(0), "Earlier",
                                evaluate_student(test_students[2]).results))

\* Logs a run may find at csv_path: none, an empty file, logs of earlier
\* runs, and a file another program wrote
PriorLogs ==
    {Absent, File(<<>>), File(<<fieldnames>>), File(<<fieldnames, EarlierRow>>),
     File(<<<<"foreign">>>>)}

NoCall ==
    [before |-> Absent, env |-> EnvOK, need_header |-> FALSE,
     student_name |-> "", results |-> <<>>, timestamp |-> ""]

(***************************************************************************)
(* The driver: "results = system.evaluate_student(student);                *)
(* system.log_results(student.name, results); print ..." per student.      *)
(***************************************************************************)
EvaluateStudent ==
    /\ pc = "eval"
    /\ LET e == evaluate_student(student)
       IN /\ results' = e.results
          /\ pc' = IF e.exc = "" THEN "log" ELSE "aborted"
    /\ UNCHANGED <<file, file0, idx, student, calls, ioerrs, last, clock>>

LogResults ==
    /\ pc = "log"
    /\ \E env \in Envs, d \in Ticks :
          /\ clock + d <= MaxClock
          /\ clock' = clock + d
          /\ ioerrs + Faults(env) <= MaxFaults
          /\ env.cut < (IF need_header(file, env.stat) THEN 2 ELSE 1)
          /\ LET r == log_results(file, student.name, results, isoformat(clock'), env)
             IN /\ file' = r.file
                /\ pc' = IF r.exc = "" THEN "print" ELSE "aborted"
                /\ last' = [before |-> file, env |-> env, need_header |-> r.need_header,
                            student_name |-> student.name, results |-> results,
                            timestamp |-> isoformat(clock')]
          /\ ioerrs' = ioerrs + Faults(env)
    /\ calls' = calls + 1
    /\ UNCHANGED <<file0, idx, student, results>>

\* a caller's loop goes on with any next student ...
CallerNext ==
    /\ pc = "print"
    /\ idx < MaxCalls
    /\ \E s \in CallerStudents : student' = s
    /\ idx' = idx + 1
    /\ pc' = "eval"
    /\ UNCHANGED <<file, file0, results, calls, ioerrs, last, clock>>

\* ... or ends
CallerReturn ==
    /\ pc = "print"
    /\ pc' = "done"
    /\ UNCHANGED <<file, file0, idx, student, results, calls, ioerrs, last, clock>>

\* demo(): "for student in test_students"
DemoNext ==
    /\ pc = "print"
    /\ idx < Len(test_students)
    /\ idx' = idx + 1
    /\ student' = test_students[idx + 1]
    /\ pc' = "eval"
    /\ UNCHANGED <<file, file0, results, calls, ioerrs, last, clock>>

DemoReturn ==
    /\ pc = "print"
    /\ idx = Len(test_students)
    /\ pc' = "done"
    /\ UNCHANGED <<file, file0, idx, student, results, calls, ioerrs, last, clock>>

\* the entry point with its clean start commented out
clean_start_skipped(f, stat_fails, remove_fails) == [file |-> f, exc |-> ""]

\* __main__ (lines 213-217): "if os.path.exists(csv_path): os.remove(csv_path)".
\* os.path.exists answers False when its stat fails; os.remove may raise
\* OSError, which nothing catches
clean_start(f, stat_fails, remove_fails) ==
    IF stat_fails \/ ~f.exists THEN [file |-> f, exc |-> ""]
    ELSE IF remove_fails THEN [file |-> f, exc |-> "OSError"]
    ELSE [file |-> Absent, exc |-> ""]

Main ==
    /\ pc = "main"
    /\ \E stat_fails \in BOOLEAN, remove_fails \in BOOLEAN :
          LET n == (IF stat_fails THEN 1 ELSE 0)
                   + (IF ~stat_fails /\ file.exists /\ remove_fails THEN 1 ELSE 0)
              r == clean_start(file, stat_fails, remove_fails)
          IN /\ remove_fails => ~stat_fails /\ file.exists
             /\ ioerrs + n <= MaxFaults
             /\ ioerrs' = ioerrs + n
             /\ file' = r.file
             /\ pc' = IF r.exc = "" THEN "eval" ELSE "aborted"
    /\ UNCHANGED <<file0, idx, student, results, calls, last, clock>>

(***************************************************************************)
(* Specifications.                                                         *)
(***************************************************************************)
InitCommon ==
    /\ file = file0
    /\ idx = 1
    /\ results = <<>>
    /\ calls = 0
    /\ ioerrs = 0
    /\ last = NoCall
    /\ clock = 0

\* a caller that evaluates and logs up to MaxCalls students of its choice
Init ==
    /\ file0 \in PriorLogs
    /\ pc = "eval"
    /\ student \in CallerStudents
    /\ InitCommon

Next == EvaluateStudent \/ LogResults \/ CallerNext \/ CallerReturn

Spec == Init /\ [][Next]_vars

\* one evaluation and one log_results call on a fresh path, for any input
InitOne ==
    /\ file0 = Absent
    /\ pc = "eval"
    /\ student \in WideStudents
    /\ InitCommon

NextOne == EvaluateStudent \/ LogResults \/ CallerReturn

SpecOne == InitOne /\ [][NextOne]_vars

\* the program entry point
InitMain ==
    /\ file0 \in PriorLogs
    /\ pc = "main"
    /\ student = test_students[1]
    /\ InitCommon

NextMain == Main \/ EvaluateStudent \/ LogResults \/ DemoNext \/ DemoReturn

SpecMain == InitMain /\ [][NextMain]_vars

(***************************************************************************)
(* Properties.                                                             *)
(***************************************************************************)
\* results holds what evaluate_student returned for the current student
Evaluated == pc \in {"log", "print", "done"}

\* the last log_results call opened the file and wrote everything it had to
Wrote == calls >= 1 /\ ~last.env.open /\ last.env.cut = -1

\* rule number k is the one whose invocation raises for student s
FaultAt(s, k) ==
    LET rc == RuleCalls(s)
    IN /\ rc[k].exc # ""
       /\ \A j \in 1..(k - 1) : rc[j].exc = ""

NoFault(s) ==
    LET rc == RuleCalls(s)
    IN \A k \in 1..Len(RuleOrder) : rc[k].exc = ""

HasEntry(res, rule) == \E i \in 1..Len(res) : res[i].rule = rule

OutOfRange(x) == x.num /\ (x.v < 0 \/ x.v > 1000)
InRange(x) == x.num /\ 0 <= x.v /\ x.v <= 1000

StartsWith(s, prefix) ==
    Len(s) >= Len(prefix) /\ SubSeq(s, 1, Len(prefix)) = prefix
EndsWith(s, suffix) ==
    Len(s) >= Len(suffix) /\ SubSeq(s, Len(s) - Len(suffix) + 1, Len(s)) = suffix

\* a complete data record: one cell per column, and not the header
IsDataRow(r) == Len(r) = 12 /\ r # fieldnames

\* C1: from an absent or empty log, after n >= 1 log_results calls that met
\* no I/O error the file holds exactly one header record followed by exactly
\* n data records; the first call wrote the header and no later call did.
C1_OneHeaderThenRows ==
    (file0.rows = <<>> /\ ioerrs = 0 /\ calls >= 1) =>
        /\ Len(file.rows) = calls + 1
        /\ file.rows[1] = fieldnames
        /\ \A i \in 2..Len(file.rows) : IsDataRow(file.rows[i])
        /\ last.need_header <=> calls = 1

C1_Witness ==
    /\ file0 = File(<<>>)
    /\ ioerrs = 0
    /\ calls = 2
    /\ Len(file.rows) = 3

\* C2 as claimed: when one rule raises, every other rule still gets its
\* entry in the returned mapping.
C2_EveryOtherRuleEvaluated ==
    (Evaluated /\ ~NoFault(student)) =>
        LET rc == RuleCalls(student)
        IN \A k \in 1..Len(RuleOrder) :
              rc[k].exc = "" => HasEntry(results, RuleOrder[k])

\* C2 amended: a fault in rule k is caught, the rules before k keep their
\* entries, and neither rule k nor any rule after it gets one.
C2_FaultCutsTheRest ==
    /\ pc # "aborted"
    /\ \A k \in 1..Len(RuleOrder) :
          (Evaluated /\ FaultAt(student, k)) =>
              /\ \A i \in 1..(k - 1) : HasEntry(results, RuleOrder[i])
              /\ \A i \in k..Len(RuleOrder) : ~HasEntry(results, RuleOrder[i])

C2_Witness ==
    /\ Evaluated
    /\ FaultAt(student, 3)
    /\ RuleCalls(student)[5].exc = ""
    /\ Len(results) = 2

\* C3: a fault in the k-th rule does not reach the caller and the mapping
\* holds exactly the entries of the k-1 rules before it, in the fixed
\* order; without a fault it holds all five; the keys are always a prefix
\* of the fixed order.
C3_PrefixOfRuleOrder ==
    /\ pc # "aborted"
    /\ Evaluated =>
          /\ Len(results) <= Len(RuleOrder)
          /\ LET rc == RuleCalls(student)
             IN \A i \in 1..Len(results) :
                   /\ results[i].rule = RuleOrder[i]
                   /\ results[i].ok = rc[i].ok
                   /\ results[i].detail = rc[i].detail
          /\ NoFault(student) => Len(results) = 5
          /\ \A k \in 1..Len(RuleOrder) :
                FaultAt(student, k) => Len(results) = k - 1

C3_Witness ==
    /\ pc = "print"
    /\ FaultAt(student, 4)
    /\ Len(results) = 3
    /\ results[3].rule = "LoginSystemRule"

\* the sample students whose complete data record is in the log
Logged ==
    {i \in 1..Len(test_students) :
        \E j \in 1..Len(file.rows) :
            IsDataRow(file.rows[j]) /\ file.rows[j][2] = test_students[i].name}

\* C4: an I/O error while log_results opens or writes the log never aborts
\* the run: the only abort is before the first log_results call, the loop
\* always can go on, a finished run has evaluated and logged every sample
\* student, a failed open leaves the log as it was, and each I/O error
\* costs at most one log record.
C4_LogFailureNeverAborts ==
    /\ pc = "aborted" => calls = 0
    /\ pc \notin {"done", "aborted"} => ENABLED NextMain
    /\ pc = "done" => calls = 3 /\ idx = 3
    /\ (calls >= 1 /\ last.env.open) => file = last.before
    /\ pc = "done" => Cardinality(Logged) >= 3 - ioerrs

C4_Witness ==
    /\ pc = "done"
    /\ file0 = Absent
    /\ ioerrs = 1
    /\ Len(file.rows) = 3
    /\ file.rows[2][2] = "Avellaneda"
    /\ file.rows[3][2] = "Ramos"

C6_RowMatchesHeader ==
    Wrote =>
        LET r == file.rows[Len(file.rows)]
            res == last.results
        IN /\ Len(r) = 12
           /\ Len(fieldnames) = 12
           /\ r[1] = last.timestamp /\ fieldnames[1] = "timestamp"
           /\ r[2] = last.student_name /\ fieldnames[2] = "student"
           /\ \A i \in 1..5 :
                 /\ fieldnames[2 * i + 1] = RuleOrder[i]
                 /\ IF i <= Len(res)
                    THEN /\ r[2 * i + 1] = (IF res[i].ok THEN "True" ELSE "False")
                         /\ r[2 * i + 2] = res[i].detail
                    ELSE r[2 * i + 1] = "" /\ r[2 * i + 2] = ""
           /\ last.need_header =>
                 /\ Len(file.rows) >= 2
                 /\ file.rows[Len(file.rows) - 1] = fieldnames

C6_Witness ==
    /\ Wrote
    /\ Len(last.results) = 3
    /\ file.rows[Len(file.rows)][7] = "False"
    /\ file.rows[Len(file.rows)][9] = ""
    /\ ~last.need_header

\* C7: a number outside [0,100] makes attendance_rule, grading_rule and
\* bonus_points_rule (whatever participated is) return, not raise, outcome
\* false with a detail that starts with "Invalid"; a record no rule raises
\* on yields all five entries, and the entry is logged as "False" with
\* that detail.
C7_OutOfRangeIsInvalid ==
    LET a == attendance_rule(student.attendance_pct)
        g == grading_rule(student.final_grade)
        b == bonus_points_rule(student.participated, student.base_score)
        Invalid(r) == r.exc = "" /\ ~r.ok /\ StartsWith(r.detail, "Invalid")
        row == file.rows[Len(file.rows)]
    IN /\ OutOfRange(student.attendance_pct) => Invalid(a)
       /\ OutOfRange(student.final_grade) => Invalid(g)
       /\ OutOfRange(student.base_score) => Invalid(b)
       /\ (Evaluated /\ NoFault(student)) =>
             /\ Len(results) = 5
             /\ OutOfRange(student.attendance_pct) =>
                    ~results[1].ok /\ StartsWith(results[1].detail, "Invalid attendance")
             /\ OutOfRange(student.final_grade) =>
                    ~results[2].ok /\ StartsWith(results[2].detail, "Invalid grade")
             /\ OutOfRange(student.base_score) =>
                    ~results[4].ok /\ StartsWith(results[4].detail, "Invalid base score")
       /\ (Wrote /\ NoFault(student)) =>
             /\ OutOfRange(student.attendance_pct) =>
                    row[3] = "False" /\ StartsWith(row[4], "Invalid")
             /\ OutOfRange(student.final_grade) =>
                    row[5] = "False" /\ StartsWith(row[6], "Invalid")
             /\ OutOfRange(student.base_score) =>
                    row[9] = "False" /\ StartsWith(row[10], "Invalid")

C7_Witness ==
    /\ pc = "done"
    /\ Wrote
    /\ student.base_score = Num(1001)
    /\ student.participated = True
    /\ student.attendance_pct = Num(-1)
    /\ Len(results) = 5
    /\ file.rows[Len(file.rows)][9] = "False"

\* C8: for a value in [0,100] attendance_rule and grading_rule each give
\* outcome true exactly when the value is at least 75: 75 and 100 give
\* true, 0 gives false, and 0 and 100 are not reported as invalid.
C8_ThresholdInclusive ==
    Evaluated =>
        /\ (InRange(student.attendance_pct) /\ Len(results) >= 1) =>
              /\ results[1].ok <=> student.attendance_pct.v >= 750
              /\ ~StartsWith(results[1].detail, "Invalid")
        /\ (InRange(student.final_grade) /\ Len(results) >= 2) =>
              /\ results[2].ok <=> student.final_grade.v >= 750
              /\ ~StartsWith(results[2].detail, "Invalid")
        /\ InRange(student.attendance_pct) => Len(results) >= 1
        /\ (InRange(student.attendance_pct) /\ InRange(student.final_grade)) =>
              Len(results) >= 2

C8_Witness ==
    /\ Evaluated
    /\ student.attendance_pct = Num(750)
    /\ results[1].ok
    /\ student.final_grade = Num(749)
    /\ ~results[2].ok

\* C9: for a base score in [0,100] bonus_points_rule gives the participated
\* flag as outcome; with participated true the reported final score is
\* min(base + 5, 100) (96 gives 100.0, 50 gives 55.0), with participated
\* false it is the base score unchanged.
C9_BonusCapped ==
    (Evaluated /\ InRange(student.base_score) /\ student.participated.bool
        /\ Len(results) >= 4) =>
        LET v == student.base_score.v
            p == student.participated.b
            final == IF ~p THEN v ELSE IF v + 50 > 1000 THEN 1000 ELSE v + 50
        IN /\ results[4].ok = p
           /\ final <= 1000 /\ final >= v
           /\ EndsWith(results[4].detail, ", final=" \o repr_float(final))
           /\ (p /\ v = 960) => EndsWith(results[4].detail, "final=100.0")
           /\ (p /\ v = 500) => EndsWith(results[4].detail, "final=55.0")
           /\ (~p /\ v = 960) => EndsWith(results[4].detail, "no bonus, final=96.0")

C9_Witness ==
    /\ Evaluated
    /\ student.base_score = Num(960)
    /\ student.participated = True
    /\ Len(results) >= 4
    /\ results[4].ok
    /\ EndsWith(results[4].detail, "final=100.0")

\* C10: a run of the program that meets no I/O error ends with a log of
\* exactly the header and three data records, for Avellaneda, Capili and
\* Ramos in that order, whatever the log held before; the first record has
\* all five outcomes true and the second all five false.
C10_DemoLog ==
    (pc = "done" /\ ioerrs = 0) =>
        /\ Len(file.rows) = 4
        /\ file.rows[1] = fieldnames
        /\ \A i \in 1..3 :
              /\ IsDataRow(file.rows[i + 1])
              /\ file.rows[i + 1][2] = <<"Avellaneda", "Capili", "Ramos">>[i]
        /\ \A c \in {3, 5, 7, 9, 11} :
              file.rows[2][c] = "True" /\ file.rows[3][c] = "False"

C10_Witness ==
    /\ pc = "done"
    /\ ioerrs = 0
    /\ file0 = File(<<fieldnames, EarlierRow>>)
    /\ Len(file.rows) = 4

====
